---- MODULE Spec2Model ----
(***************************************************************************)
(* Model of gha-competitor-monitor/monitor.py: the discovery-and-diff      *)
(* engine (main and the functions it calls) as a state machine over        *)
(* successive runs, and parse_sitemap_collect as a step machine of its own.*)
(***************************************************************************)
EXTENDS Integers, Sequences, FiniteSets, TLC

(***************************************************************************)
(* Bounds of the model.                                                    *)
(***************************************************************************)
MaxRuns == 2
MaxLimit == 2
MaxThreshold == 2
MaxRetries == 5

(***************************************************************************)
(* Generic helpers.                                                        *)
(***************************************************************************)
Min(a, b) == IF a <= b THEN a ELSE b
Max(a, b) == IF a >= b THEN a ELSE b
Abs(a) == IF a >= 0 THEN a ELSE 0 - a
Range(q) == {q[k] : k \in 1..Len(q)}
NoDup(q) == \A j, k \in 1..Len(q) : j # k => q[j] # q[k]
\* every listing of the finite set S, each element once
Orders(S) == {q \in [1..Cardinality(S) -> S] : Range(q) = S}
EmptyMap == [x \in {} |-> 0]
\* d[k] = v on a dict, adding the key when it is new
Put(d, k, v) == [x \in DOMAIN d \cup {k} |-> IF x = k THEN v ELSE d[x]]
\* Python's lst[:take] keeps this many of n elements (a negative take counts from the end)
SliceLen(n, take) == IF take >= 0 THEN Min(n, take) ELSE Max(n + take, 0)

(***************************************************************************)
(* The remote world and the configuration the runs are given.              *)
(***************************************************************************)
\* sites.yml: the configured sites, in order, by domain key
SitesCfg == <<"s1", "s2">>
PathA == <<"/", "a">>
PathB == <<"/", "b">>
Url(s, p) == [site |-> s, path |-> p]
URLsOf(s) == IF s = "s1" THEN {Url(s, PathA), Url(s, PathB)} ELSE {Url(s, PathA)}
\* include_paths / exclude_paths a site entry may carry
FilterChoices ==
    {[include_paths |-> <<>>, exclude_paths |-> <<>>],
     [include_paths |-> <<PathA>>, exclude_paths |-> <<>>],
     [include_paths |-> <<>>, exclude_paths |-> <<PathB>>]}
\* what fetching robots.txt may give, and the sitemap candidates that may be fetchable
RobotsResults ==
    {[ok |-> FALSE, sitemaps |-> <<>>], [ok |-> TRUE, sitemaps |-> <<>>],
     [ok |-> TRUE, sitemaps |-> <<"/r.xml">>]}
Candidates == {"/r.xml", "/sitemap.xml", "/sitemap_index.xml"}
\* normalized page texts a content fetch may yield
Texts == {<<>>, <<"x">>}
Responses == {[ok |-> FALSE, text |-> <<>>]} \cup {[ok |-> TRUE, text |-> t] : t \in Texts}
LimitChoices == [max_urls_per_site : 0..MaxLimit, max_total_urls : 0..MaxLimit]

(***************************************************************************)
(* Pure functions of monitor.py.                                           *)
(***************************************************************************)
CharCode(c) == IF c = "x" THEN 1 ELSE 2
RECURSIVE Digest(_)
\* hashlib.sha256(text).hexdigest(): an injective code of the text
Digest(t) == IF t = <<>> THEN 1 ELSE 3 * Digest(SubSeq(t, 1, Len(t) - 1)) + CharCode(t[Len(t)])

\* content_fingerprint: (h, length) of the normalized text, or the fetch error
content_fingerprint(resp) ==
    IF resp.ok THEN [ok |-> TRUE, hash |-> Digest(resp.text), len |-> Len(resp.text)]
    ELSE [ok |-> FALSE, hash |-> 0, len |-> 0]

StartsWith(path, p) == Len(p) <= Len(path) /\ SubSeq(path, 1, Len(p)) = p
\* urlparse(url).path or "/"
UrlPath(url) == IF url.path = <<>> THEN <<"/">> ELSE url.path

\* should_include as it would be without its exclude_paths branch
should_include_no_exclude(url, include_paths, exclude_paths) ==
    include_paths = <<>>
    \/ \E k \in 1..Len(include_paths) : StartsWith(UrlPath(url), include_paths[k])

should_include(url, include_paths, exclude_paths) ==
    LET path == UrlPath(url) IN
    IF include_paths # <<>> /\ ~(\E k \in 1..Len(include_paths) : StartsWith(path, include_paths[k]))
    THEN FALSE
    ELSE IF exclude_paths # <<>> /\ (\E k \in 1..Len(exclude_paths) : StartsWith(path, exclude_paths[k]))
    THEN FALSE
    ELSE TRUE

\* clamp_urls as it would be with the run-wide budget left out of take
clamp_urls_per_site_only(urls, lim, remaining_total_budget) ==
    {K \in SUBSET urls :
        Cardinality(K) = SliceLen(Cardinality(urls), lim.max_urls_per_site)}

\* clamp_urls: the sets list(urls)[:take] can be, the iteration order of a set being any
clamp_urls(urls, lim, remaining_total_budget) ==
    LET take == Min(lim.max_urls_per_site, remaining_total_budget) IN
    {K \in SUBSET urls : Cardinality(K) = SliceLen(Cardinality(urls), take)}

\* robots_sitemaps: the Sitemap: lines of robots.txt, [] when it cannot be fetched
robots_sitemaps(robots) == IF robots.ok THEN robots.sitemaps ELSE <<>>

RECURSIVE try_urls(_, _)
\* try_urls: the first candidate whose fetch succeeds, "None" when none does
try_urls(urls, fetchable) ==
    IF urls = <<>> THEN "None"
    ELSE IF Head(urls) \in fetchable THEN Head(urls)
    ELSE try_urls(Tail(urls), fetchable)

\* discover_sitemaps as it would be with the two guesses ahead of the robots list
discover_sitemaps_guesses_first(robots, fetchable) ==
    try_urls(<<"/sitemap.xml", "/sitemap_index.xml">> \o robots_sitemaps(robots), fetchable)

discover_sitemaps(robots, fetchable) ==
    try_urls(robots_sitemaps(robots) \o <<"/sitemap.xml", "/sitemap_index.xml">>, fetchable)

\* parse_rss_items: the item links cut to the per-site cap, the empty set on any failure
parse_rss_items(feed, lim) ==
    IF ~feed.ok THEN {{}}
    ELSE {K \in SUBSET feed.items :
            Cardinality(K) = SliceLen(Cardinality(feed.items), lim.max_urls_per_site)}

\* load_state / save_state: the state file, {"sites": {}} when there is none
load_state(file) == IF file.exists THEN file.data ELSE [sites |-> EmptyMap]
save_state(st) == [exists |-> TRUE, data |-> st]

\* what parse_sitemap_collect may hand back to main: a set within the per-site cap, or
\* the AttributeError of an empty <loc>; with a cap of 0 its loop never runs
CollectOutcomes(s, lim) ==
    {[raised |-> FALSE, urls |-> S] :
        S \in {T \in SUBSET URLsOf(s) : Cardinality(T) <= Max(lim.max_urls_per_site, 0)}}
    \cup (IF lim.max_urls_per_site > 0 THEN {[raised |-> TRUE, urls |-> {}]} ELSE {})

\* a feed discover_rss_feeds found: whether its fetch and parse succeed, and its item links
FeedsOf(s) == {[ok |-> FALSE, items |-> {}]} \cup {[ok |-> TRUE, items |-> S] : S \in SUBSET URLsOf(s)}

(***************************************************************************)
(* main, lines 288-408.                                                    *)
(***************************************************************************)
NewShown == 20
ChangedShown == 20
GoneShown == 10
Shown(lst, n) == SubSeq(lst, 1, Min(Len(lst), n))
More(lst, n) == Max(Len(lst) - n, 0)
Msg(kind, site, n, c, g) ==
    [kind |-> kind, site |-> site,
     new |-> Shown(n, NewShown), new_more |-> More(n, NewShown),
     changed |-> Shown(c, ChangedShown), changed_more |-> More(c, ChangedShown),
     gone |-> Shown(g, GoneShown), gone_more |-> More(g, GoneShown)]

NoSiteState == [urls |-> EmptyMap, last_run |-> 0]
\* state["sites"].get(domain_key, {"urls": {}, "last_run": 0})
SiteStateOf(st, s) == IF s \in DOMAIN st.sites THEN st.sites[s] ELSE NoSiteState

\* is_changed as it would be with > for >=
is_changed_strict(prev, h, L, thr) == prev.hash # h /\ Abs(L - prev.len) > thr

\* lines 345-347: a recorded URL counts as changed
is_changed(prev, h, L, thr) == prev.hash # h /\ Abs(L - prev.len) >= thr

\* on_fetch_fail as it would be without the try/except around content_fingerprint
on_fetch_fail_uncaught(acc, u) == [acc EXCEPT !.crashed = TRUE]

\* on_fetch_fail as it would be without the continue of line 339: the loop body goes on
\* with no digest and no length
on_fetch_fail_no_continue(acc, u) ==
    [acc EXCEPT !.urls = Put(acc.urls, u, [hash |-> 0, len |-> 0]),
                !.new = IF u \in DOMAIN acc.urls THEN acc.new ELSE Append(acc.new, u)]

\* lines 337-339: a content fetch that failed is printed and skipped
on_fetch_fail(acc, u) == acc

\* record_stored as it would be if only a URL without a record got one
record_stored_if_new(recs, u, h, L) ==
    IF u \in DOMAIN recs THEN recs ELSE Put(recs, u, [hash |-> h, len |-> L])

\* line 349: site_state["urls"][u] = {"hash": h, "len": L}
record_stored(recs, u, h, L) == Put(recs, u, [hash |-> h, len |-> L])

RECURSIVE diff_loop(_, _, _, _)
\* lines 334-349, over the kept URLs in the order the set yields them
diff_loop(order, res, thr, acc) ==
    IF order = <<>> THEN acc
    ELSE LET u == Head(order)
             r == res[u]
             known == u \in DOMAIN acc.urls
             next ==
                IF ~r.ok THEN on_fetch_fail(acc, u)
                ELSE [acc EXCEPT
                        !.urls = record_stored(acc.urls, u, r.hash, r.len),
                        !.new = IF ~known THEN Append(acc.new, u) ELSE acc.new,
                        !.changed = IF known /\ is_changed(acc.urls[u], r.hash, r.len, thr)
                                    THEN Append(acc.changed, u) ELSE acc.changed]
         IN IF next.crashed THEN next ELSE diff_loop(Tail(order), res, thr, next)

\* gone_skipped as it would be without the scope check
gone_skipped_never(u, inc, exc) == FALSE

\* line 355: a recorded URL the gone loop passes over
gone_skipped(u, inc, exc) == inc # <<>> /\ ~should_include(u, inc, exc)

\* current_set as it would be if the gone loop compared against nothing
current_set_empty(kept, discovered) == {}

\* line 352: the set a recorded URL must be missing from to be gone
current_set(kept, discovered) == kept

RECURSIVE gone_loop(_, _, _, _)
\* lines 353-358, over the recorded keys in order
gone_loop(keys, cur, inc, exc) ==
    IF keys = <<>> THEN <<>>
    ELSE LET u == Head(keys)
             rest == gone_loop(Tail(keys), cur, inc, exc)
         IN IF gone_skipped(u, inc, exc) THEN rest
            ELSE IF u \notin cur THEN <<u>> \o rest ELSE rest

\* line 293
cold_start(file, st) == ~file.exists \/ DOMAIN st.sites = {}

\* report_queued as it would be without the cold-start test
report_queued_always(n, c, g, cold) == n # <<>> \/ c # <<>> \/ g # <<>>

\* line 369: a site's report is queued
report_queued(n, c, g, cold) == (n # <<>> \/ c # <<>> \/ g # <<>>) /\ ~cold

VARIABLES
    disk,              \* state.json
    run,               \* runs started so far (the clock of last_run)
    pc,                \* where main is
    limits, change_threshold,
    state, is_cold_start, remaining_total, all_reports, summary_rows,
    i,                 \* index of the site the loop is at
    include_paths, exclude_paths,
    found,             \* urls after steps 1 and 2: the discovered set
    urls,              \* urls after step 3: the kept set
    fp,                \* what content_fingerprint gave for each kept URL
    new_urls, changed_urls, gone_urls,
    calls,             \* calls of content_fingerprint in this run
    raised,            \* the exception main ended with, "" when none
    sheets, sent,      \* what reached the Sheets log and post_to_slack in this run
    slack,             \* how the posts to Slack went in this run
    track,             \* whether every run after the first is given what the first was given
    hist,              \* when tracking: the configuration and remote content of the first run
    sm_pc,             \* where parse_sitemap_collect is
    stack, seen, collected,
    fetches,           \* how often each sitemap URL was fetched in this call
    f_pc,              \* where fetch is
    retries, attempt,
    f_log,             \* the requests fetch made and the sleeps it took, in order
    f_ret,             \* what fetch returned or raised
    call, ret          \* a function applied on its own: its arguments, its result

config == <<limits, change_threshold>>
locals == <<include_paths, exclude_paths, found, urls, fp, new_urls, changed_urls, gone_urls>>
outside == <<sheets, sent, slack>>
sitemap_vars == <<sm_pc, stack, seen, collected, fetches>>
main_vars == <<disk, run, pc, state, is_cold_start, remaining_total, all_reports,
               summary_rows, i, locals, calls, raised, outside, track, hist>>
fetch_vars == <<f_pc, retries, attempt, f_log, f_ret>>
call_vars == <<call, ret>>
other_vars == <<fetch_vars, call_vars>>
vars == <<main_vars, config, sitemap_vars, other_vars>>

Replaying == track /\ run > 1
Recording == track /\ run = 1
NoHist == [limits |-> [max_urls_per_site |-> 0, max_total_urls |-> 0], threshold |-> 0,
           sites |-> EmptyMap]

InitMain ==
    /\ disk = [exists |-> FALSE, data |-> [sites |-> EmptyMap]]
    /\ run = 0 /\ pc = "idle"
    /\ change_threshold = 0
    /\ state = [sites |-> EmptyMap]
    /\ is_cold_start = TRUE /\ remaining_total = 0
    /\ all_reports = <<>> /\ summary_rows = <<>> /\ i = 1
    /\ include_paths = <<>> /\ exclude_paths = <<>>
    /\ found = {} /\ urls = {} /\ fp = EmptyMap
    /\ new_urls = <<>> /\ changed_urls = <<>> /\ gone_urls = <<>>
    /\ calls = 0 /\ raised = ""
    /\ sheets = "pending" /\ sent = <<>> /\ slack = "pending"
    /\ hist = NoHist

SitemapIdle ==
    /\ sm_pc = "idle" /\ stack = <<>> /\ seen = {} /\ collected = {} /\ fetches = EmptyMap

NoRet == [kind |-> "none", status |-> 0]
FetchIdle ==
    /\ f_pc = "idle" /\ retries = 0 /\ attempt = 0 /\ f_log = <<>> /\ f_ret = NoRet

NoCall == [fn |-> "none"]
CallIdle == call = NoCall /\ ret = NoCall
OthersIdle == FetchIdle /\ CallIdle

NoLimits == [max_urls_per_site |-> 0, max_total_urls |-> 0]

Init == InitMain /\ limits = NoLimits /\ SitemapIdle /\ OthersIdle /\ track = FALSE

\* the iteration's locals as a fresh iteration (or a fresh process) has them
LocalsCleared ==
    /\ include_paths' = <<>> /\ exclude_paths' = <<>>
    /\ found' = {} /\ urls' = {} /\ fp' = EmptyMap
    /\ new_urls' = <<>> /\ changed_urls' = <<>> /\ gone_urls' = <<>>

\* the process is gone: nothing of its memory is left, only the file and what went out
ProcessExit ==
    /\ limits' = NoLimits
    /\ change_threshold' = 0
    /\ state' = [sites |-> EmptyMap]
    /\ remaining_total' = 0 /\ i' = 1
    /\ LocalsCleared

\* step_after as it would be with the state written last, after the notifications
step_after_notify_first(p) ==
    CASE p = "loop" -> "sheets"
      [] p = "sheets" -> "slack"
      [] p = "slack" -> "save"
      [] OTHER -> "done"

\* lines 389-408: what main does once the site loop is over, in order
step_after(p) ==
    CASE p = "loop" -> "save"
      [] p = "save" -> "sheets"
      [] p = "sheets" -> "slack"
      [] OTHER -> "done"

\* lines 289-300: a run starts
StartRun ==
    /\ UNCHANGED <<sitemap_vars, other_vars>>
    /\ pc \in (IF track THEN {"idle", "done"} ELSE {"idle", "done", "crashed"})
    /\ run < MaxRuns
    /\ run' = run + 1
    /\ \E lim \in LimitChoices, thr \in 1..MaxThreshold :
         /\ (track /\ run >= 1) => (lim = hist.limits /\ thr = hist.threshold)
         /\ limits' = lim
         /\ change_threshold' = thr
         /\ remaining_total' = lim.max_total_urls
         /\ hist' = IF track /\ run = 0 THEN [NoHist EXCEPT !.limits = lim, !.threshold = thr]
                    ELSE hist
    /\ state' = load_state(disk)
    /\ is_cold_start' = cold_start(disk, load_state(disk))
    /\ all_reports' = <<>> /\ summary_rows' = <<>> /\ i' = 1
    /\ LocalsCleared
    /\ calls' = 0 /\ raised' = ""
    /\ sheets' = "pending" /\ sent' = <<>> /\ slack' = "pending"
    /\ pc' = IF Len(SitesCfg) = 0 THEN step_after("loop") ELSE "sitemap"
    /\ UNCHANGED <<disk, track>>

\* lines 303-317: the site entry is read and its sitemap is discovered and collected
Step1Sitemap ==
    /\ UNCHANGED <<sitemap_vars, other_vars>>
    /\ pc = "sitemap"
    /\ \E flt \in FilterChoices, robots \in RobotsResults, fetchable \in SUBSET Candidates :
         LET s == SitesCfg[i]
             sitemap_url == discover_sitemaps(robots, fetchable)
         IN /\ Replaying => flt = hist.sites[s].filter
            /\ \E coll \in IF sitemap_url = "None"
                           THEN {[raised |-> FALSE, urls |-> {}]}
                           ELSE CollectOutcomes(s, limits) :
                 /\ Replaying => (~coll.raised /\ coll.urls = hist.sites[s].sitemap)
                 /\ hist' = IF Recording
                            THEN [hist EXCEPT !.sites = Put(@, s,
                                    [filter |-> flt, sitemap |-> coll.urls, found |-> {},
                                     resp |-> EmptyMap])]
                            ELSE hist
                 /\ IF coll.raised
                    THEN /\ pc' = "crashed" /\ raised' = "AttributeError"
                         /\ ProcessExit
                         /\ all_reports' = <<>> /\ summary_rows' = <<>> /\ calls' = 0
                    ELSE /\ pc' = "rss"
                         /\ include_paths' = flt.include_paths
                         /\ exclude_paths' = flt.exclude_paths
                         /\ found' = coll.urls
                         /\ UNCHANGED <<config, state, remaining_total, i, raised, urls, fp,
                                        new_urls, changed_urls, gone_urls, all_reports,
                                        summary_rows, calls>>
    /\ UNCHANGED <<disk, run, is_cold_start, outside, track>>

\* lines 320-323: the feeds, when options.discover_rss is on
Step2Rss ==
    /\ UNCHANGED <<sitemap_vars, other_vars>>
    /\ pc = "rss"
    /\ \E discover_rss \in BOOLEAN :
         IF ~discover_rss THEN found' = found
         ELSE \E n \in 0..2 : \E feeds \in [1..n -> FeedsOf(SitesCfg[i])] :
                \E got \in [1..n -> SUBSET URLsOf(SitesCfg[i])] :
                  /\ \A k \in 1..n : got[k] \in parse_rss_items(feeds[k], limits)
                  /\ found' = found \cup UNION {got[k] : k \in 1..n}
    /\ Replaying => found' = hist.sites[SitesCfg[i]].found
    /\ hist' = IF Recording THEN [hist EXCEPT !.sites[SitesCfg[i]].found = found'] ELSE hist
    /\ pc' = "filter"
    /\ UNCHANGED <<disk, run, config, state, is_cold_start, remaining_total, all_reports,
                   summary_rows, i, include_paths, exclude_paths, urls, fp, new_urls,
                   changed_urls, gone_urls, calls, raised, outside, track>>

\* lines 326-329: the include/exclude filter and the budget
Step3Filter ==
    /\ UNCHANGED <<sitemap_vars, other_vars>>
    /\ pc = "filter"
    /\ \E kept \in clamp_urls({u \in found : should_include(u, include_paths, exclude_paths)},
                              limits, remaining_total) :
         /\ urls' = kept
         /\ remaining_total' = remaining_total - Cardinality(kept)
    /\ pc' = "diff"
    /\ UNCHANGED <<disk, run, config, state, is_cold_start, all_reports, summary_rows, i,
                   include_paths, exclude_paths, found, fp, new_urls, changed_urls, gone_urls,
                   calls, raised, outside, track, hist>>

\* lines 331-383: fingerprints, the three lists, the report, the summary row, the site state
Step4Diff ==
    /\ UNCHANGED <<sitemap_vars, other_vars>>
    /\ pc = "diff"
    /\ \E order \in Orders(urls), resp \in [urls -> Responses] :
         LET s == SitesCfg[i]
             site_state == SiteStateOf(state, s)
             res == [u \in urls |-> content_fingerprint(resp[u])]
             d == diff_loop(order, res, change_threshold,
                            [urls |-> site_state.urls, new |-> <<>>, changed |-> <<>>,
                             crashed |-> FALSE])
         IN /\ Replaying => \A u \in urls \cap DOMAIN hist.sites[s].resp :
                               resp[u] = hist.sites[s].resp[u]
            /\ hist' = IF Recording THEN [hist EXCEPT !.sites[s].resp = resp] ELSE hist
            /\ calls' = calls + Cardinality(urls)
            /\ IF d.crashed
               THEN /\ pc' = "crashed" /\ raised' = "FetchError"
                    /\ ProcessExit
                    /\ UNCHANGED <<all_reports, summary_rows>>
               ELSE \E keys \in Orders(DOMAIN d.urls) :
                      LET g == gone_loop(keys, current_set(urls, found), include_paths, exclude_paths)
                      IN /\ fp' = res
                         /\ new_urls' = d.new
                         /\ changed_urls' = d.changed
                         /\ gone_urls' = g
                         /\ all_reports' =
                              IF report_queued(d.new, d.changed, g, is_cold_start)
                              THEN Append(all_reports, Msg("report", s, d.new, d.changed, g))
                              ELSE all_reports
                         /\ summary_rows' = Append(summary_rows,
                              [site |-> s, new_count |-> Len(d.new),
                               changed_count |-> Len(d.changed), gone_count |-> Len(g)])
                         /\ state' = [state EXCEPT !.sites =
                              Put(state.sites, s, [urls |-> d.urls, last_run |-> run])]
                         /\ pc' = "next"
                         /\ UNCHANGED <<config, remaining_total, i, include_paths,
                                        exclude_paths, found, urls, raised>>
    /\ UNCHANGED <<disk, run, is_cold_start, outside, track>>

\* lines 302 and 385-387: the budget check and the loop's next site; the locals of the
\* iteration just ended are not read again
StepNextSite ==
    /\ UNCHANGED <<sitemap_vars, other_vars>>
    /\ pc = "next"
    /\ IF remaining_total <= 0 \/ i = Len(SitesCfg)
       THEN pc' = step_after("loop") /\ i' = i
       ELSE pc' = "sitemap" /\ i' = i + 1
    /\ LocalsCleared
    /\ UNCHANGED <<disk, run, config, state, is_cold_start, remaining_total, all_reports,
                   summary_rows, calls, raised, outside, track, hist>>

\* line 390
Step8Save ==
    /\ UNCHANGED <<sitemap_vars, other_vars>>
    /\ pc = "save"
    /\ disk' = save_state(state)
    /\ pc' = step_after("save")
    /\ UNCHANGED <<run, config, state, is_cold_start, remaining_total, all_reports,
                   summary_rows, i, locals, calls, raised, outside, track, hist>>

\* lines 393-396: the Sheets log is off, appended or fails; none of it reaches main
Step9Sheets ==
    /\ UNCHANGED <<sitemap_vars, other_vars>>
    /\ pc = "sheets"
    /\ \E outcome \in {"off", "appended", "error"} : sheets' = outcome
    /\ pc' = step_after("sheets")
    /\ UNCHANGED <<disk, run, config, state, is_cold_start, remaining_total, all_reports,
                   summary_rows, i, locals, calls, raised, sent, slack, track, hist>>

\* slack_messages as it would be without the is_cold_start test of line 399
slack_messages_init_when_quiet(cold, reports) ==
    IF reports = <<>> THEN <<Msg("init", "", <<>>, <<>>, <<>>)>> ELSE reports

\* lines 399-408: what is handed to post_to_slack
slack_messages(cold, reports) ==
    IF cold /\ reports = <<>> THEN <<Msg("init", "", <<>>, <<>>, <<>>)>>
    ELSE IF reports # <<>> THEN reports
    ELSE <<Msg("no_change", "", <<>>, <<>>, <<>>)>>

\* lines 214-222 and 399-408: the messages are posted when the webhook is set, and a
\* post that raises is printed; main returns and the process ends
Step10Slack ==
    /\ UNCHANGED <<sitemap_vars, other_vars>>
    /\ pc = "slack"
    /\ \E outcome \in {"unset", "posted", "error"} :
         /\ sent' = IF outcome # "unset" THEN slack_messages(is_cold_start, all_reports)
                    ELSE <<>>
         /\ slack' = outcome
    /\ pc' = step_after("slack")
    /\ ProcessExit
    /\ UNCHANGED <<disk, run, is_cold_start, all_reports, summary_rows, calls, raised,
                   sheets, track, hist>>

Next ==
    \/ StartRun
    \/ Step1Sitemap
    \/ Step2Rss
    \/ Step3Filter
    \/ Step4Diff
    \/ StepNextSite
    \/ Step8Save
    \/ Step9Sheets
    \/ Step10Slack

Spec == Init /\ [][Next]_vars

\* state files an earlier run of main may have left: none, or the records of a subset of
\* the first site's pages
PersistedFiles ==
    {[exists |-> FALSE, data |-> [sites |-> EmptyMap]]} \cup
    {save_state([sites |-> Put(EmptyMap, SitesCfg[1],
                    [urls |-> [u \in U |-> [hash |-> Digest(<<"x">>), len |-> 1]],
                     last_run |-> 0])]) : U \in (SUBSET URLsOf(SitesCfg[1])) \ {{}}}

InitTwice ==
    /\ disk \in PersistedFiles
    /\ run = 0 /\ pc = "idle"
    /\ change_threshold = 0
    /\ state = [sites |-> EmptyMap]
    /\ is_cold_start = TRUE /\ remaining_total = 0
    /\ all_reports = <<>> /\ summary_rows = <<>> /\ i = 1
    /\ include_paths = <<>> /\ exclude_paths = <<>>
    /\ found = {} /\ urls = {} /\ fp = EmptyMap
    /\ new_urls = <<>> /\ changed_urls = <<>> /\ gone_urls = <<>>
    /\ calls = 0 /\ raised = ""
    /\ sheets = "pending" /\ sent = <<>> /\ slack = "pending"
    /\ hist = NoHist
    /\ limits = NoLimits /\ SitemapIdle /\ OthersIdle /\ track = TRUE

\* the same runs from any of those files, every run after the first given the
\* configuration and the remote content of the first
SpecTwice == InitTwice /\ [][Next]_vars

(***************************************************************************)
(* parse_sitemap_collect, lines 91-120, one action per turn of its loop.   *)
(* What a sitemap URL serves is drawn when it is fetched.                  *)
(***************************************************************************)
\* the text of a <loc> element: None when the element is empty
NoneLoc == [none |-> TRUE, text |-> <<>>]
Loc(t) == [none |-> FALSE, text |-> t]
SitemapLocs ==
    {NoneLoc, Loc(<<"n1">>), Loc(<<"n2">>), Loc(<<"n3">>), Loc(<<" ", "n2", " ">>)}
PageLocs ==
    {NoneLoc, Loc(<<"p1">>), Loc(<<"p2">>), Loc(<<"p3">>), Loc(<<" ", "p1", " ">>)}
UpTo2(S) == {<<>>} \cup {<<a>> : a \in S} \cup {<<a, b>> : a \in S, b \in S}
\* a well-formed document: its sm:sitemap/sm:loc and its sm:url/sm:loc, in document order
Docs == [sitemaps : UpTo2(SitemapLocs), urls : UpTo2(PageLocs)]
RootSitemap == <<"n1">>

RECURSIVE LStrip(_)
LStrip(t) == IF t # <<>> /\ Head(t) = " " THEN LStrip(Tail(t)) ELSE t
RECURSIVE RStrip(_)
RStrip(t) == IF t # <<>> /\ t[Len(t)] = " " THEN RStrip(SubSeq(t, 1, Len(t) - 1)) ELSE t
\* str.strip()
Strip(t) == RStrip(LStrip(t))

\* line 98
loop_goes_on(stk, coll, lim) == stk # <<>> /\ Cardinality(coll) < lim.max_urls_per_site

\* already_seen as it would be without the visited set
already_seen_never(cur, seen_set) == FALSE

\* line 100
already_seen(cur, seen_set) == cur \in seen_set

RECURSIVE push_locs(_, _)
\* lines 110-112: loc.text.strip() raises on an empty <loc>
push_locs(locs, stk) ==
    IF locs = <<>> THEN [raised |-> FALSE, stack |-> stk]
    ELSE IF Head(locs).none THEN [raised |-> TRUE, stack |-> stk]
    ELSE push_locs(Tail(locs), Append(stk, Strip(Head(locs).text)))

RECURSIVE add_locs_no_break(_, _, _)
\* add_locs as it would be without the test and break of lines 118-119
add_locs_no_break(locs, coll, lim) ==
    IF locs = <<>> THEN [raised |-> FALSE, collected |-> coll]
    ELSE IF Head(locs).none THEN [raised |-> TRUE, collected |-> coll]
    ELSE add_locs_no_break(Tail(locs), coll \cup {Strip(Head(locs).text)}, lim)

RECURSIVE add_locs(_, _, _)
\* lines 115-119
add_locs(locs, coll, lim) ==
    IF locs = <<>> THEN [raised |-> FALSE, collected |-> coll]
    ELSE IF Head(locs).none THEN [raised |-> TRUE, collected |-> coll]
    ELSE LET c == coll \cup {Strip(Head(locs).text)}
         IN IF Cardinality(c) >= lim.max_urls_per_site
            THEN [raised |-> FALSE, collected |-> c]
            ELSE add_locs(Tail(locs), c, lim)

Fetched(cur) ==
    Put(fetches, cur, IF cur \in DOMAIN fetches THEN Min(fetches[cur] + 1, 2) ELSE 1)

\* lines 93-95: the call starts, under any of the configured caps
InitSitemap ==
    /\ InitMain /\ track = FALSE /\ OthersIdle
    /\ limits \in {lim \in LimitChoices : lim.max_total_urls = lim.max_urls_per_site}
    /\ sm_pc = "loop" /\ stack = <<RootSitemap>> /\ seen = {} /\ collected = {}
    /\ fetches = EmptyMap

\* lines 99-101: the popped URL was visited before
SmSkipSeen ==
    /\ sm_pc = "loop" /\ loop_goes_on(stack, collected, limits)
    /\ already_seen(stack[Len(stack)], seen)
    /\ stack' = SubSeq(stack, 1, Len(stack) - 1)
    /\ UNCHANGED <<main_vars, other_vars, config, sm_pc, seen, collected, fetches>>

\* lines 102-107: the fetch fails after its retries, or the body is not well-formed XML
SmFetchFail ==
    /\ sm_pc = "loop" /\ loop_goes_on(stack, collected, limits)
    /\ ~already_seen(stack[Len(stack)], seen)
    /\ \E cause \in {"fetch", "xml"} :
         /\ seen' = seen \cup {stack[Len(stack)]}
         /\ fetches' = Fetched(stack[Len(stack)])
         /\ stack' = SubSeq(stack, 1, Len(stack) - 1)
    /\ UNCHANGED <<main_vars, other_vars, config, sm_pc, collected>>

\* lines 102-119: the document is read: its sitemaps pushed, its pages collected
SmVisit ==
    /\ sm_pc = "loop" /\ loop_goes_on(stack, collected, limits)
    /\ ~already_seen(stack[Len(stack)], seen)
    /\ \E doc \in Docs :
         LET cur == stack[Len(stack)]
             pushed == push_locs(doc.sitemaps, SubSeq(stack, 1, Len(stack) - 1))
             added == add_locs(doc.urls, collected, limits)
         IN /\ fetches' = Fetched(cur)
            /\ IF pushed.raised \/ added.raised
               THEN /\ sm_pc' = "raised"
                    /\ stack' = <<>> /\ seen' = {} /\ collected' = {}
               ELSE /\ sm_pc' = sm_pc
                    /\ seen' = seen \cup {cur}
                    /\ stack' = pushed.stack
                    /\ collected' = added.collected
    /\ UNCHANGED <<main_vars, other_vars, config>>

\* lines 98 and 120
SmReturn ==
    /\ sm_pc = "loop" /\ ~loop_goes_on(stack, collected, limits)
    /\ sm_pc' = "returned"
    /\ UNCHANGED <<main_vars, other_vars, config, stack, seen, collected, fetches>>

NextSitemap ==
    \/ SmSkipSeen
    \/ SmFetchFail
    \/ SmVisit
    \/ SmReturn

\* the call runs on until it returns or raises
SpecSitemap == InitSitemap /\ [][NextSitemap]_vars /\ WF_vars(NextSitemap)

(***************************************************************************)
(* fetch, lines 54-67, one action per turn of its loop.                    *)
(***************************************************************************)
\* what requests.get may end with: an exception, or a final response and its status
Statuses == {200, 204, 304, 404, 503}
GetOutcomes ==
    {[raised |-> TRUE, status |-> 0]} \cup {[raised |-> FALSE, status |-> c] : c \in Statuses}
\* line 60: Response.raise_for_status raises HTTPError for a 4xx or a 5xx status
raise_for_status(status) == 400 <= status /\ status < 600
\* attempt_fails as it would be without the call of raise_for_status
attempt_fails_only_on_exception(out) == out.raised

\* lines 58-62: the attempt ends in the except branch
attempt_fails(out) == out.raised \/ raise_for_status(out.status)
\* lines 50-52, in milliseconds
backoff_sleep(a) == Min(2^a * 500, 4000)

Request(a, out) ==
    [ev |-> "request", attempt |-> a, raised |-> out.raised, status |-> out.status, ms |-> 0]
Slept(a) ==
    [ev |-> "sleep", attempt |-> a, raised |-> FALSE, status |-> 0, ms |-> backoff_sleep(a)]

\* line 54: the call starts, with any retries an int can be
InitFetch ==
    /\ InitMain /\ limits = NoLimits /\ SitemapIdle /\ CallIdle /\ track = FALSE
    /\ f_pc = "loop" /\ retries \in -1..MaxRetries /\ attempt = 0
    /\ f_log = <<>> /\ f_ret = NoRet

\* lines 59-61: the attempt gets a response raise_for_status lets through
FetchReturn ==
    /\ f_pc = "loop" /\ attempt <= retries
    /\ \E out \in GetOutcomes :
         /\ ~attempt_fails(out)
         /\ f_log' = Append(f_log, Request(attempt, out))
         /\ f_ret' = [kind |-> "response", status |-> out.status]
    /\ f_pc' = "returned"
    /\ UNCHANGED <<main_vars, config, sitemap_vars, call_vars, retries, attempt>>

\* lines 62-65: the attempt fails and another is left: sleep, then the next attempt
FetchRetry ==
    /\ f_pc = "loop" /\ attempt <= retries
    /\ attempt < retries
    /\ \E out \in GetOutcomes :
         /\ attempt_fails(out)
         /\ f_log' = f_log \o <<Request(attempt, out), Slept(attempt)>>
    /\ attempt' = attempt + 1
    /\ UNCHANGED <<main_vars, config, sitemap_vars, call_vars, f_pc, retries, f_ret>>

\* lines 62-67: the last attempt fails: its error is raised
FetchRaise ==
    /\ f_pc = "loop" /\ attempt <= retries
    /\ ~(attempt < retries)
    /\ \E out \in GetOutcomes :
         /\ attempt_fails(out)
         /\ f_log' = Append(f_log, Request(attempt, out))
         /\ f_ret' = [kind |-> "raise", status |-> out.status]
    /\ f_pc' = "raised"
    /\ UNCHANGED <<main_vars, config, sitemap_vars, call_vars, retries, attempt>>

\* line 57: range(retries + 1) is empty, the function falls off its end and returns None
FetchFallsThrough ==
    /\ f_pc = "loop" /\ ~(attempt <= retries)
    /\ f_ret' = [kind |-> "None", status |-> 0]
    /\ f_pc' = "returned"
    /\ UNCHANGED <<main_vars, config, sitemap_vars, call_vars, retries, attempt, f_log>>

NextFetch ==
    \/ FetchReturn
    \/ FetchRetry
    \/ FetchRaise
    \/ FetchFallsThrough

SpecFetch == InitFetch /\ [][NextFetch]_vars

(***************************************************************************)
(* Steps 1 and 3 of main's loop body applied on their own, to a wider      *)
(* choice of robots.txt contents, fetchable candidates and path rules than *)
(* the runs above are given.                                               *)
(***************************************************************************)
\* what a robots.txt may declare; whether it can be fetched is drawn beside it
DeclaredLists ==
    {<<>>, <<"/r1.xml">>, <<"/r2.xml">>, <<"/r1.xml", "/r2.xml">>, <<"/r2.xml", "/r1.xml">>,
     <<"/sitemap_index.xml", "/r1.xml">>}
AllCandidates == {"/r1.xml", "/r2.xml", "/sitemap.xml", "/sitemap_index.xml"}
DiscoverCalls ==
    [fn : {"discover_sitemaps"},
     robots : [ok : BOOLEAN, sitemaps : DeclaredLists],
     fetchable : SUBSET AllCandidates]

\* URL paths (the empty one included) and the prefix lists a site entry may carry
CallPaths == {<<>>, <<"/">>, PathA, PathB, <<"/", "a", "b">>}
PrefixLists == {<<>>, <<PathA>>, <<PathB>>, <<PathA, PathB>>, <<<<"/">>>>, <<<<>>>>}
FilterCalls ==
    [fn : {"filter"},
     found : SUBSET {Url("s1", q) : q \in CallPaths},
     include_paths : PrefixLists,
     exclude_paths : PrefixLists]

CallLimits == [max_urls_per_site |-> MaxLimit, max_total_urls |-> MaxLimit]

InitCalls ==
    /\ InitMain /\ limits = NoLimits /\ SitemapIdle /\ FetchIdle /\ track = FALSE
    /\ call \in DiscoverCalls \cup FilterCalls
    /\ ret = NoCall

\* lines 312-317: the sitemap is looked for and, when there is one, collected
CallDiscover ==
    /\ call.fn = "discover_sitemaps" /\ ret = NoCall
    /\ LET sitemap_url == discover_sitemaps(call.robots, call.fetchable)
       IN \E coll \in IF sitemap_url = "None"
                      THEN {[raised |-> FALSE, urls |-> {}]}
                      ELSE CollectOutcomes("s1", CallLimits) :
            ret' = [fn |-> "discover_sitemaps", sitemap_url |-> sitemap_url,
                    raised |-> coll.raised, urls |-> coll.urls]
    /\ UNCHANGED <<main_vars, config, sitemap_vars, fetch_vars, call>>

\* lines 326-327: the include/exclude filter, then the budget
CallFilter ==
    /\ call.fn = "filter" /\ ret = NoCall
    /\ LET filtered == {u \in call.found :
                          should_include(u, call.include_paths, call.exclude_paths)}
       IN \E kept \in clamp_urls(filtered, CallLimits, CallLimits.max_total_urls) :
            ret' = [fn |-> "filter", filtered |-> filtered, urls |-> kept]
    /\ UNCHANGED <<main_vars, config, sitemap_vars, fetch_vars, call>>

NextCalls ==
    \/ CallDiscover
    \/ CallFilter

SpecCalls == InitCalls /\ [][NextCalls]_vars

(***************************************************************************)
(* Steps 6 to 10 of main, lines 360-408, for lists of any length: the      *)
(* three lists of a site are drawn, long enough for the message to cut     *)
(* them, instead of being computed from the few pages of the runs above.   *)
(***************************************************************************)
Page(s, k) == Url(s, <<"/", k>>)
Pages(s, from, n) == [k \in 1..n |-> Page(s, from + k)]
NewLengths == {0, 1, NewShown + 1}
ChangedLengths == {0, ChangedShown + 1}
GoneLengths == {0, GoneShown, GoneShown + 1}

\* lines 289-300, cold start or not
InitReport ==
    /\ disk = [exists |-> FALSE, data |-> [sites |-> EmptyMap]]
    /\ run = 1 /\ pc = "sitemap"
    /\ change_threshold = 1
    /\ state = [sites |-> EmptyMap]
    /\ is_cold_start \in BOOLEAN /\ remaining_total = 1
    /\ all_reports = <<>> /\ summary_rows = <<>> /\ i = 1
    /\ include_paths = <<>> /\ exclude_paths = <<>>
    /\ found = {} /\ urls = {} /\ fp = EmptyMap
    /\ new_urls = <<>> /\ changed_urls = <<>> /\ gone_urls = <<>>
    /\ calls = 0 /\ raised = ""
    /\ sheets = "pending" /\ sent = <<>> /\ slack = "pending"
    /\ hist = NoHist
    /\ limits = NoLimits /\ SitemapIdle /\ OthersIdle /\ track = FALSE

\* lines 302-383 with the outcome of steps 1 to 5 drawn: the message, the summary row,
\* the site state
ReportSite ==
    /\ UNCHANGED <<sitemap_vars, other_vars>>
    /\ pc = "sitemap"
    /\ \E a \in NewLengths, b \in ChangedLengths, c \in GoneLengths, left \in {0, 1} :
         LET s == SitesCfg[i]
             n == Pages(s, 0, a)
             ch == Pages(s, 100, b)
             g == Pages(s, 200, c)
             recorded == Range(n) \cup Range(ch) \cup Range(g)
         IN /\ new_urls' = n /\ changed_urls' = ch /\ gone_urls' = g
            /\ all_reports' =
                 IF report_queued(n, ch, g, is_cold_start)
                 THEN Append(all_reports, Msg("report", s, n, ch, g))
                 ELSE all_reports
            /\ summary_rows' = Append(summary_rows,
                 [site |-> s, new_count |-> Len(n),
                  changed_count |-> Len(ch), gone_count |-> Len(g)])
            /\ state' = [state EXCEPT !.sites =
                 Put(state.sites, s,
                     [urls |-> [u \in recorded |-> [hash |-> 1, len |-> 0]],
                      last_run |-> run])]
            /\ remaining_total' = left
    /\ pc' = "next"
    /\ UNCHANGED <<disk, run, config, is_cold_start, i, include_paths, exclude_paths,
                   found, urls, fp, calls, raised, outside, track, hist>>

NextReport ==
    \/ ReportSite
    \/ StepNextSite
    \/ Step8Save
    \/ Step9Sheets
    \/ Step10Slack

SpecReport == InitReport /\ [][NextReport]_vars

(***************************************************************************)
(* The claims.                                                             *)
(***************************************************************************)
\* main is between load_config and its return
Running == pc \in {"sitemap", "rss", "filter", "diff", "next", "save", "sheets", "slack"}
\* the site of the iteration, and its record as the run loaded it
Site == SitesCfg[i]
Prior == SiteStateOf(load_state(disk), Site).urls
Gone == Range(gone_urls)
Fingerprinted == {u \in DOMAIN fp : fp[u].ok}

\* C1: while a run is going, the URLs handed to content_fingerprint so far number at most
\* limits.max_total_urls, and those of the site at hand at most limits.max_urls_per_site.
C1_BudgetEnforced ==
    Running =>
        /\ calls <= limits.max_total_urls
        /\ Cardinality(urls) <= limits.max_urls_per_site
        /\ Cardinality(DOMAIN fp) <= limits.max_urls_per_site

\* C1 witness: the run-wide budget, smaller than the per-site cap, cut a site's two
\* discovered URLs to one, and that one was fingerprinted.
C1_Witness ==
    /\ pc = "next" /\ calls = 1 /\ Cardinality(found) = 2 /\ Cardinality(DOMAIN fp) = 1
    /\ limits.max_total_urls = 1 /\ limits.max_urls_per_site = 2
    /\ include_paths = <<>> /\ exclude_paths = <<>>

\* C2: after a site's diff, a fingerprinted URL that had a record is in the Changed list
\* exactly when its digest differs from the recorded one and the lengths differ by at
\* least change_threshold.
C2_ChangedIffThreshold ==
    pc = "next" =>
        \A u \in Fingerprinted \cap DOMAIN Prior :
            (u \in Range(changed_urls)) <=>
                (fp[u].hash # Prior[u].hash
                 /\ Abs(fp[u].len - Prior[u].len) >= change_threshold)

\* C2 witness: a recorded URL whose digest changed with a length delta equal to the
\* threshold is in the Changed list.
C2_Witness ==
    /\ pc = "next"
    /\ \E u \in Fingerprinted \cap DOMAIN Prior :
         /\ fp[u].hash # Prior[u].hash
         /\ Abs(fp[u].len - Prior[u].len) = change_threshold
         /\ u \in Range(changed_urls)

\* C4: after a site's diff, every recorded URL that is in scope and not kept is Gone, and
\* no recorded URL whose path matches no prefix of a non-empty include list is Gone.
C4_GoneInScopeOnly ==
    pc = "next" =>
        \A u \in DOMAIN Prior :
            /\ (should_include(u, include_paths, exclude_paths) /\ u \notin urls) => u \in Gone
            /\ (include_paths # <<>>
                /\ ~(\E k \in 1..Len(include_paths) : StartsWith(UrlPath(u), include_paths[k])))
               => u \notin Gone

\* C4 witness: under a non-empty include list, one recorded URL outside it is not Gone
\* while a recorded URL inside it, not kept, is.
C4_Witness ==
    /\ pc = "next" /\ include_paths # <<>>
    /\ \E u \in DOMAIN Prior : ~should_include(u, include_paths, exclude_paths) /\ u \notin Gone
    /\ \E u \in DOMAIN Prior : should_include(u, include_paths, exclude_paths) /\ u \in Gone

\* C5: no URL that is out of scope under the site's current rules is ever Gone.
C5_NoOutOfScopeGone ==
    pc = "next" => \A u \in Gone : should_include(u, include_paths, exclude_paths)

\* C6: every Gone URL was absent from the run's discovered set, and no discovered URL
\* that is in scope is Gone.
C6_GoneWasNotDiscovered ==
    pc = "next" =>
        /\ \A u \in Gone : u \notin found
        /\ \A u \in found : should_include(u, include_paths, exclude_paths) => u \notin Gone

\* C8: in a cold-start run every fingerprinted URL is New and its record is stored, the
\* file written holds the state, no site report is queued, and nothing but the one
\* initialization notice is posted.
C8_ColdStartSilent ==
    is_cold_start =>
        /\ all_reports = <<>>
        /\ pc = "next" =>
             \A u \in Fingerprinted :
                /\ u \in Range(new_urls)
                /\ u \in DOMAIN state.sites[Site].urls
                /\ state.sites[Site].urls[u] = [hash |-> fp[u].hash, len |-> fp[u].len]
        /\ pc \in {"sheets", "slack"} => disk = [exists |-> TRUE, data |-> state]
        /\ pc = "done" => sent \in {<<>>, <<Msg("init", "", <<>>, <<>>, <<>>)>>}

\* C8 witness: a cold-start run that fingerprinted a new URL ended having written its
\* record and posted only the initialization notice.
C8_Witness ==
    /\ pc = "done" /\ is_cold_start
    /\ sent = <<Msg("init", "", <<>>, <<>>, <<>>)>>
    /\ \E k \in 1..Len(summary_rows) : summary_rows[k].new_count > 0
    /\ \E s \in DOMAIN disk.data.sites : DOMAIN disk.data.sites[s].urls # {}

\* the record the diff stores for a fingerprint
RecordOf(r) == [hash |-> r.hash, len |-> r.len]

C3_SecondRunSilent ==
    (Replaying /\ pc = "next") =>
        /\ new_urls = <<>> /\ changed_urls = <<>> /\ gone_urls = <<>>
        /\ \A u \in DOMAIN state.sites[Site].urls \cap DOMAIN Prior :
               state.sites[Site].urls[u].hash = Prior[u].hash

\* C7: within one call every sitemap URL is fetched at most once, whatever its documents
\* reference (themselves or an earlier index included), the collection never exceeds what
\* a set of distinct page URLs within the cap can hold, and the call comes to an end.
C7_SitemapTerminates ==
    /\ [](\A n \in DOMAIN fetches : fetches[n] <= 1)
    /\ [](Cardinality(collected) <= Max(limits.max_urls_per_site, 0))
    /\ <>(sm_pc \in {"returned", "raised"})

\* C7 witness: the root index was read, so was a second index it references, and the
\* root is on the stack again, referenced back by that second index.
C7_Witness ==
    /\ sm_pc = "loop" /\ stack # <<>>
    /\ stack[Len(stack)] = RootSitemap
    /\ {RootSitemap, <<"n2">>} \subseteq seen
    /\ fetches[RootSitemap] = 1 /\ fetches[<<"n2">>] = 1

\* C10 (as claimed): parse_sitemap_collect never raises.
C10_CollectNeverRaises == sm_pc # "raised"

\* the requests fetch has made so far
Requests == SelectSeq(f_log, LAMBDA e : e.ev = "request")
Is2xx(e) == ~e.raised /\ 200 <= e.status /\ e.status < 300

NoErrorStatus(e) == ~e.raised /\ (e.status < 400 \/ e.status >= 600)

Saved ==
    /\ disk.exists
    /\ \A k \in 1..Len(summary_rows) :
          /\ summary_rows[k].site \in DOMAIN disk.data.sites
          /\ disk.data.sites[summary_rows[k].site].last_run = run

\* C12: the Sheets log and the Slack posts come after save_state: while either is at
\* hand the file holds the state of the run, and once the run is over the file still
\* holds what the run wrote, whether the log or a post failed or not.
C12_SavedBeforeNotifying ==
    /\ pc \in {"sheets", "slack"} => disk = save_state(state)
    /\ (Running /\ (sheets # "pending" \/ slack # "pending" \/ sent # <<>>)) => Saved
    /\ pc = "done" => Saved

\* C12 witness: a run is over in which the Sheets log and a Slack post both failed, and
\* the file holds the record the run made.
C12_Witness ==
    /\ pc = "done" /\ sheets = "error" /\ slack = "error"
    /\ Saved
    /\ \E s \in DOMAIN disk.data.sites : DOMAIN disk.data.sites[s].urls # {}

\* the URL records of site s in a state file's content
RecordsIn(data, s) == SiteStateOf(data, s).urls

\* C13: no step of any run takes a URL record away, in memory or in the file: a run works
\* on a state that has every key the file has, and a write of the file keeps every key
\* the file had; and after a site's diff the record of every URL fingerprinted in it is
\* the digest and length just computed, whether the URL is New, Changed or neither.
C13_RecordsKeptAndOverwritten ==
    /\ [](Running =>
            \A s \in DOMAIN load_state(disk).sites :
                DOMAIN RecordsIn(load_state(disk), s) \subseteq DOMAIN RecordsIn(state, s))
    /\ [][\A s \in DOMAIN load_state(disk).sites :
            DOMAIN RecordsIn(load_state(disk), s) \subseteq DOMAIN RecordsIn(load_state(disk'), s)]_vars
    /\ [](pc = "next" =>
            \A u \in Fingerprinted :
                /\ u \in DOMAIN RecordsIn(state, Site)
                /\ RecordsIn(state, Site)[u].hash = fp[u].hash
                /\ RecordsIn(state, Site)[u].len = fp[u].len)

\* C13 witness: a page's text changed by less than the threshold, so it is in no list,
\* and its record is the new one; a page beside it is Gone and its record is still there.
C13_Witness ==
    /\ pc = "next"
    /\ \E u \in Fingerprinted \cap DOMAIN Prior :
          /\ fp[u].hash # Prior[u].hash
          /\ u \notin Range(changed_urls) \cup Range(new_urls)
          /\ RecordsIn(state, Site)[u] = [hash |-> fp[u].hash, len |-> fp[u].len]
    /\ \E g \in Gone : g \in DOMAIN RecordsIn(state, Site) /\ RecordsIn(state, Site)[g] = Prior[g]

\* C14: after a site's diff no URL is twice in a list or in two lists; a New URL had no
\* record when the run loaded the state, a Changed or a Gone one had; and no kept URL is
\* Gone.
C14_ListsDisjoint ==
    pc = "next" =>
        /\ NoDup(new_urls) /\ NoDup(changed_urls) /\ NoDup(gone_urls)
        /\ Range(new_urls) \cap Range(changed_urls) = {}
        /\ Range(new_urls) \cap Gone = {}
        /\ Range(changed_urls) \cap Gone = {}
        /\ Range(new_urls) \cap DOMAIN Prior = {}
        /\ Range(changed_urls) \subseteq DOMAIN Prior
        /\ Gone \subseteq DOMAIN Prior
        /\ Gone \cap urls = {}

\* C14 witness: one page is New, so the gone loop meets the record just made for it, and
\* another page of the site is Gone.
C14_Witness ==
    /\ pc = "next" /\ new_urls # <<>> /\ gone_urls # <<>>
    /\ Range(new_urls) \subseteq DOMAIN RecordsIn(state, Site)

\* C15 (as claimed): the budget left is the configured one less the URLs kept so far and
\* is never negative, and no site is started (no discovery, no filter, no diff) once the
\* budget left is zero, a configured max_total_urls of 0 included.
C15_NoSiteOnEmptyBudget ==
    Running =>
        /\ remaining_total >= 0
        /\ pc = "next" => remaining_total = limits.max_total_urls - calls
        /\ pc \in {"sitemap", "rss", "filter"} => remaining_total > 0

\* the candidates in the order the claim gives: the declared ones when robots.txt could
\* be fetched, then the two guesses
ClaimedOrder(robots) ==
    (IF robots.ok THEN robots.sitemaps ELSE <<>>) \o <<"/sitemap.xml", "/sitemap_index.xml">>
FirstFetchable(cands, fetchable) ==
    IF \E k \in 1..Len(cands) : cands[k] \in fetchable
    THEN cands[CHOOSE k \in 1..Len(cands) :
                 /\ cands[k] \in fetchable
                 /\ \A j \in 1..(k - 1) : cands[j] \notin fetchable]
    ELSE "None"

\* C16: what discover_sitemaps returns is the first fetchable candidate among the
\* sitemaps robots.txt declares, in their order, then /sitemap.xml, then
\* /sitemap_index.xml; nothing robots.txt would declare counts when it cannot be fetched;
\* and when no candidate is fetchable the result is None, nothing is raised and the site
\* has no sitemap URL.
C16_FirstFetchableCandidate ==
    (call.fn = "discover_sitemaps" /\ ret # NoCall) =>
        /\ ret.sitemap_url = FirstFetchable(ClaimedOrder(call.robots), call.fetchable)
        /\ ~call.robots.ok =>
              ret.sitemap_url \in {"/sitemap.xml", "/sitemap_index.xml", "None"}
        /\ ret.sitemap_url = "None" => (~ret.raised /\ ret.urls = {})

\* C16 witness: robots.txt declares two sitemaps, the first cannot be fetched, the second
\* and /sitemap.xml can, and the second declared one is returned.
C16_Witness ==
    /\ call.fn = "discover_sitemaps" /\ ret # NoCall
    /\ call.robots = [ok |-> TRUE, sitemaps |-> <<"/r1.xml", "/r2.xml">>]
    /\ call.fetchable = {"/r2.xml", "/sitemap.xml"}
    /\ ret.sitemap_url = "/r2.xml"

\* the claim's rule, on the path of the URL ("/" when it has none)
HasPrefix(path, q) == \E n \in 0..Len(path) : SubSeq(path, 1, n) = q
InScope(u, inc, exc) ==
    LET path == IF u.path = <<>> THEN <<"/">> ELSE u.path
    IN /\ inc = <<>> \/ \E k \in 1..Len(inc) : HasPrefix(path, inc[k])
       /\ ~\E k \in 1..Len(exc) : HasPrefix(path, exc[k])

\* C18: the URLs the filter lets through are those of the discovered set whose path
\* starts with an include prefix (any path when there is none) and with no exclude
\* prefix, and every kept URL is one of them.
C18_FilterIsScope ==
    (call.fn = "filter" /\ ret # NoCall) =>
        /\ \A u \in call.found :
              u \in ret.filtered <=> InScope(u, call.include_paths, call.exclude_paths)
        /\ \A u \in ret.urls : InScope(u, call.include_paths, call.exclude_paths)

\* C18 witness: under include /a and exclude /b, /a/b is kept, /b and the URL without a
\* path are dropped.
C18_Witness ==
    /\ call.fn = "filter" /\ ret # NoCall
    /\ call.include_paths = <<PathA>> /\ call.exclude_paths = <<PathB>>
    /\ call.found = {Url("s1", <<>>), Url("s1", PathB), Url("s1", <<"/", "a", "b">>)}
    /\ ret.urls = {Url("s1", <<"/", "a", "b">>)}

\* C17: the collected set never has more than limits.max_urls_per_site elements, and
\* from the moment it has that many no page location is added and no sitemap is fetched.
C17_CollectCapped ==
    /\ [](Cardinality(collected) <= limits.max_urls_per_site)
    /\ [][Cardinality(collected) >= limits.max_urls_per_site
            => (collected' = collected /\ fetches' = fetches)]_vars

\* C17 witness: the call returned with the cap of one reached while a sitemap pushed
\* earlier is still on the stack, never fetched.
C17_Witness ==
    /\ sm_pc = "returned" /\ limits.max_urls_per_site = 1 /\ Cardinality(collected) = 1
    /\ stack # <<>> /\ stack[Len(stack)] \notin DOMAIN fetches

\* the kept URLs whose content fetch failed
FetchFailed == {u \in urls : u \in DOMAIN fp /\ ~fp[u].ok}

\* C19: after a site's diff a kept URL whose content fetch failed is in none of the three
\* lists, its record is the one the run loaded, and it has none if it had none.
C19_FailedFetchLeavesRecord ==
    pc = "next" =>
        \A u \in FetchFailed :
            /\ u \notin Range(new_urls) \cup Range(changed_urls) \cup Gone
            /\ u \in DOMAIN Prior =>
                  (u \in DOMAIN RecordsIn(state, Site) /\ RecordsIn(state, Site)[u] = Prior[u])
            /\ u \notin DOMAIN Prior => u \notin DOMAIN RecordsIn(state, Site)

\* C19 witness: two kept URLs failed, one with a record from the run before and one
\* without.
C19_Witness ==
    /\ pc = "next"
    /\ \E u \in FetchFailed : u \in DOMAIN Prior /\ RecordsIn(state, Site)[u] = Prior[u]
    /\ \E u \in FetchFailed : u \notin DOMAIN Prior

\* the summary rows of the sites that have something in a list, in order
Busy(row) == row.new_count > 0 \/ row.changed_count > 0 \/ row.gone_count > 0
BusyRows == SelectSeq(summary_rows, Busy)

\* C20: in a run that is no cold start, the queued reports are one for each processed
\* site with a non-empty list, in order, and none for another site; after a site's step
\* its summary row counts the whole lists and its state holds every listed URL, while the
\* message shows the first 20, 20 and 10 and counts the rest; and what is handed to
\* post_to_slack is the reports, or the one no-change message when there is none, never
\* the initialization notice.
C20_ReportsPerBusySite ==
    ~is_cold_start =>
        /\ Len(all_reports) = Len(BusyRows)
        /\ \A k \in 1..Len(all_reports) :
              /\ all_reports[k].kind = "report"
              /\ all_reports[k].site = BusyRows[k].site
              /\ Len(all_reports[k].new) + all_reports[k].new_more = BusyRows[k].new_count
              /\ Len(all_reports[k].changed) + all_reports[k].changed_more
                    = BusyRows[k].changed_count
              /\ Len(all_reports[k].gone) + all_reports[k].gone_more = BusyRows[k].gone_count
              /\ Len(all_reports[k].new) <= NewShown
              /\ Len(all_reports[k].changed) <= ChangedShown
              /\ Len(all_reports[k].gone) <= GoneShown
        /\ pc = "next" =>
              /\ summary_rows[Len(summary_rows)] =
                    [site |-> Site, new_count |-> Len(new_urls),
                     changed_count |-> Len(changed_urls), gone_count |-> Len(gone_urls)]
              /\ Range(new_urls) \cup Range(changed_urls) \cup Gone
                    \subseteq DOMAIN RecordsIn(state, Site)
              /\ Busy(summary_rows[Len(summary_rows)]) =>
                    /\ all_reports[Len(all_reports)].new
                          = SubSeq(new_urls, 1, Min(Len(new_urls), NewShown))
                    /\ all_reports[Len(all_reports)].changed
                          = SubSeq(changed_urls, 1, Min(Len(changed_urls), ChangedShown))
                    /\ all_reports[Len(all_reports)].gone
                          = SubSeq(gone_urls, 1, Min(Len(gone_urls), GoneShown))
        /\ (pc = "done" /\ slack # "unset") =>
              /\ all_reports # <<>> => sent = all_reports
              /\ all_reports = <<>> =>
                    (Len(sent) = 1 /\ sent[1].kind = "no_change")
        /\ \A k \in 1..Len(sent) : sent[k].kind # "init"

\* C20 witness: no cold start; the first site has nothing, the second has 21 New and 11
\* Gone URLs; the one report shows 20 and 10 of them and counts 1 more of each, and the
\* summary row counts 21 and 11.
C20_Witness ==
    /\ ~is_cold_start /\ pc = "next" /\ i = 2
    /\ Len(summary_rows) = 2 /\ ~Busy(summary_rows[1])
    /\ Len(new_urls) = NewShown + 1 /\ Len(gone_urls) = GoneShown + 1
    /\ Len(all_reports) = 1
    /\ Len(all_reports[1].new) = NewShown /\ all_reports[1].new_more = 1
    /\ Len(all_reports[1].gone) = GoneShown /\ all_reports[1].gone_more = 1
    /\ summary_rows[2].new_count = NewShown + 1 /\ summary_rows[2].gone_count = GoneShown + 1
====
